---- MODULE Spec2Model ----
(***************************************************************************)
(* Model of nodes.py of ComfyUI-MMAudio: the frame resampler               *)
(* (resample_video), the dual-branch preprocessor (process_video_tensor),  *)
(* the model loader (MMAudioModelLoader.loadmodel) and the sampler node    *)
(* (MMAudioSampler.sample).                                                *)
(*                                                                         *)
(* Tensors are modelled by their shape plus one scalar per frame (the      *)
(* temporal axis is the only one the resampler changes).  Durations are    *)
(* multiples of 0.01 s, held as an integer number of centiseconds, and     *)
(* turned into IEEE-754 doubles exactly as Python does before the frame    *)
(* counts are computed.                                                    *)
(***************************************************************************)
EXTENDS Integers, Sequences, FiniteSets, TLC

(***************************************************************************)
(* Bounds of the model.                                                    *)
(***************************************************************************)
MaxFrames == 3      \* frames of an input video: 1..MaxFrames
MaxSampleFrames == 2 \* frames of a video given to the sampler: 1..MaxSampleFrames
MaxSide == 2        \* height and width of an input video: 1..MaxSide
MaxPix == 1         \* a frame's scalar content: 0..MaxPix
MaxTarget == 4      \* target frame counts tried on resample_video: 0..MaxTarget
MaxChain == 2       \* successive resample_video calls on one tensor
MaxCs == 120        \* durations tried on the frame counts: 0..MaxCs centiseconds
MinSampleCs == 6    \* the sampler's durations, in centiseconds, are
DurStride == 13     \*   MinSampleCs + DurStride * i
MaxDurIdx == 2      \*   for i in 0..MaxDurIdx

(***************************************************************************)
(* IEEE-754 binary64 arithmetic on bit strings.  A double is a record      *)
(* [m, e]: m its significand, most significant bit first (no leading 0,    *)
(* at most MantBits bits, <<>> for zero), e the weight of its last bit:    *)
(* the value is m * 2^e.                                                   *)
(***************************************************************************)
MantBits == 53

RECURSIVE BitsOfNat(_)
BitsOfNat(n) == IF n = 0 THEN <<>> ELSE Append(BitsOfNat(n \div 2), n % 2)

RECURSIVE NatOfBits(_)
NatOfBits(b) ==
    IF Len(b) = 0 THEN 0
    ELSE 2 * NatOfBits(SubSeq(b, 1, Len(b) - 1)) + b[Len(b)]

Zeros(n) == [i \in 1..n |-> 0]

\* b without its leading zeros
Strip(b) ==
    IF \A i \in 1..Len(b) : b[i] = 0 THEN <<>>
    ELSE LET f == CHOOSE i \in 1..Len(b) : b[i] = 1 /\ \A j \in 1..(i - 1) : b[j] = 0
         IN  SubSeq(b, f, Len(b))

\* b + 1
IncBits(b) ==
    IF \A i \in 1..Len(b) : b[i] = 1 THEN <<1>> \o Zeros(Len(b))
    ELSE LET z == CHOOSE i \in 1..Len(b) : b[i] = 0 /\ \A j \in (i + 1)..Len(b) : b[j] = 1
         IN  SubSeq(b, 1, z - 1) \o <<1>> \o Zeros(Len(b) - z)

\* round m * 2^e to MantBits bits, to nearest, ties to even
RoundDouble(m, e) ==
    IF Len(m) <= MantBits THEN [m |-> m, e |-> e]
    ELSE LET kept == SubSeq(m, 1, MantBits)
             rest == SubSeq(m, MantBits + 1, Len(m))
             e2   == e + Len(rest)
             more == \E i \in 2..Len(rest) : rest[i] = 1
             up   == rest[1] = 1 /\ (more \/ kept[MantBits] = 1)
             inc  == IncBits(kept)
         IN  IF ~up THEN [m |-> kept, e |-> e2]
             ELSE IF Len(inc) > MantBits
                  THEN [m |-> SubSeq(inc, 1, MantBits), e |-> e2 + 1]
                  ELSE [m |-> inc, e |-> e2]

RECURSIVE Pow2Mod(_, _)
\* 2^i mod den
Pow2Mod(i, den) ==
    IF i = 0 THEN 1 % den
    ELSE IF i % 2 = 0 THEN (Pow2Mod(i \div 2, den) * Pow2Mod(i \div 2, den)) % den
    ELSE (2 * Pow2Mod(i - 1, den)) % den

\* what is left of rem/den after its first i binary places, times den * 2^i
RemAfter(rem, den, i) == (rem * Pow2Mod(i, den)) % den

\* the i-th binary place of rem/den (rem < den)
FracBit(rem, den, i) == (2 * RemAfter(rem, den, i - 1)) \div den

\* float("<k/100 written with two decimals>"): the double nearest to k/100.
\* MantBits + 1 bits of the quotient and a sticky bit decide the rounding.
DecimalToDouble(k) ==
    IF k = 0 THEN [m |-> <<>>, e |-> 0]
    ELSE LET whole == BitsOfNat(k \div 100)
             rem   == k % 100
             \* binary places skipped before the first 1 of a value below 1
             skip  == IF Len(whole) > 0 THEN 0
                      ELSE (CHOOSE i \in 1..7 : FracBit(rem, 100, i) = 1
                               /\ \A j \in 1..(i - 1) : FracBit(rem, 100, j) = 0) - 1
             places == skip + MantBits + 1 - Len(whole)
             frac  == [j \in 1..(places - skip) |-> FracBit(rem, 100, skip + j)]
             stick == IF RemAfter(rem, 100, places) = 0 THEN 0 ELSE 1
         IN  RoundDouble(whole \o frac \o <<stick>>, -(places + 1))

\* the 12-bit limbs of b, most significant first
Limbs(b) ==
    LET n == (Len(b) + 11) \div 12
        p == Zeros(12 * n - Len(b)) \o b
    IN  [i \in 1..n |-> NatOfBits(SubSeq(p, 12 * (i - 1) + 1, 12 * i))]

RECURSIVE MulLimbs(_, _, _)
\* the bits of l * n + carry, for limbs l and a small natural n
MulLimbs(l, n, carry) ==
    IF Len(l) = 0 THEN BitsOfNat(carry)
    ELSE LET t == l[Len(l)] * n + carry
             low == BitsOfNat(t % 4096)
         IN  MulLimbs(SubSeq(l, 1, Len(l) - 1), n, t \div 4096)
                 \o Zeros(12 - Len(low)) \o low

\* b * n, for a small natural n
MulBits(b, n) == Strip(MulLimbs(Limbs(b), n, 0))

\* fps * x for a double x and an integer-valued double fps (8.0, 25.0)
DoubleMul(fps, x) == RoundDouble(MulBits(x.m, fps), x.e)

\* int(x) for a double x >= 0: truncation
DoubleToInt(x) ==
    IF x.e >= 0 THEN NatOfBits(x.m \o Zeros(x.e))
    ELSE IF Len(x.m) + x.e <= 0 THEN 0
    ELSE NatOfBits(SubSeq(x.m, 1, Len(x.m) + x.e))

(***************************************************************************)
(* Tensors.  A video tensor is [shape, t, data]: its shape, the position   *)
(* of the frame axis in the shape, and one exact rational [n, d] per       *)
(* frame standing for the frame's pixels (floating-point rounding of the   *)
(* pixel values is not modelled).                                          *)
(***************************************************************************)
\* the outcome of a call: a value returned, or an exception raised
Returned(v) == [raised |-> FALSE, value |-> v]
Raised == [raised |-> TRUE, value |-> <<>>]

\* an optional tensor: the tensor, or Python's None
Some(v) == [present |-> TRUE, value |-> v]
Absent == [present |-> FALSE, value |-> <<>>]

RECURSIVE Gcd(_, _)
Gcd(a, b) == IF b = 0 THEN a ELSE Gcd(b, a % b)

Rat(n, d) == LET g == Gcd(n, d) IN [n |-> n \div g, d |-> d \div g]

Tensor(shape, t, data) == [shape |-> shape, t |-> t, data |-> data]

\* the videos of the host: IMAGE batches [N, H, W, 3]
Videos ==
    UNION { { Tensor(<<n, h, w, 3>>, 1, data) :
                h \in 1..MaxSide, w \in 1..MaxSide,
                data \in [1..n -> {Rat(p, 1) : p \in 0..MaxPix}] } :
            n \in 1..MaxFrames }

\* the videos whose frames are all black
BlackVideos == { v \in Videos : \A i \in 1..Len(v.data) : v.data[i].n = 0 }

\* Tensor.permute(dims), dims counted from 0
permute(x, dims) ==
    Tensor([i \in 1..Len(dims) |-> x.shape[dims[i] + 1]],
           CHOOSE i \in 1..Len(dims) : dims[i] + 1 = x.t,
           x.data)

\* Tensor.unsqueeze(0)
unsqueeze0(x) == Tensor(<<1>> \o x.shape, x.t + 1, x.data)

\* Tensor.squeeze(0): drops the first axis when its size is 1
squeeze0(x) ==
    IF x.shape[1] = 1
    THEN Tensor(SubSeq(x.shape, 2, Len(x.shape)), x.t - 1, x.data)
    ELSE x

\* linear interpolation of the frames to m frames, align_corners=False:
\* output frame i (from 0) reads source position max(0, (i + 0.5) * n/m - 0.5)
Lerp(data, m) ==
    LET n == Len(data)
    IN  [i \in 1..m |->
            LET num == (2 * (i - 1) + 1) * n - m      \* source position * 2m
                pos == IF num < 0 THEN 0 ELSE num
                i0  == pos \div (2 * m)
                i1  == IF i0 < n - 1 THEN i0 + 1 ELSE i0
                lam == pos % (2 * m)                   \* weight of i1, * 2m
                a   == data[i0 + 1]
                b   == data[i1 + 1]
            IN  Rat((2 * m - lam) * a.n * b.d + lam * b.n * a.d, 2 * m * a.d * b.d)]

\* F.interpolate(x, size=size, mode='trilinear', align_corners=False) of a
\* 5-D tensor [batch, channel, d1, d2, d3]: raises unless every input and
\* output size is positive
interpolate(x, size) ==
    IF \E i \in 1..3 : size[i] <= 0 \/ x.shape[i + 2] <= 0 THEN Raised
    ELSE Returned(Tensor(<<x.shape[1], x.shape[2]>> \o size, x.t,
                         IF x.t >= 3 THEN Lerp(x.data, size[x.t - 2]) ELSE x.data))

(***************************************************************************)
(* resample_video(video, new_frames).  The result is [raised, video,       *)
(* interpolate]: whether F.interpolate raised, the tensor returned, and    *)
(* the sizes of the F.interpolate calls made.                              *)
(***************************************************************************)
resample_video_other_axis(video, new_frames) ==
    IF video.shape[2] = new_frames
    THEN [raised |-> FALSE, video |-> video, interpolate |-> <<>>]
    ELSE LET v5   == unsqueeze0(permute(video, <<3, 0, 1, 2>>))
             size == <<new_frames, v5.shape[4], v5.shape[5]>>
             out  == interpolate(v5, size)
         IN  [raised |-> out.raised,
              video |-> IF out.raised THEN <<>>
                        ELSE permute(squeeze0(out.value), <<1, 2, 3, 0>>),
              interpolate |-> <<size>>]

resample_video_stale_index(video, new_frames) ==
    IF video.shape[1] = new_frames
    THEN [raised |-> FALSE, video |-> video, interpolate |-> <<>>]
    ELSE LET v5   == unsqueeze0(permute(video, <<3, 0, 1, 2>>))
             size == <<new_frames, v5.shape[3], v5.shape[4]>>
             out  == interpolate(v5, size)
         IN  [raised |-> out.raised,
              video |-> IF out.raised THEN <<>>
                        ELSE permute(squeeze0(out.value), <<1, 2, 3, 0>>),
              interpolate |-> <<size>>]

resample_video(video, new_frames) ==
    IF video.shape[1] = new_frames
    THEN [raised |-> FALSE, video |-> video, interpolate |-> <<>>]
    ELSE LET v5   == unsqueeze0(permute(video, <<3, 0, 1, 2>>))   \* [1, c, t, h, w]
             size == <<new_frames, v5.shape[4], v5.shape[5]>>
             out  == interpolate(v5, size)
         IN  [raised |-> out.raised,
              video |-> IF out.raised THEN <<>>
                        ELSE permute(squeeze0(out.value), <<1, 2, 3, 0>>),
              interpolate |-> <<size>>]

(***************************************************************************)
(* The two transform pipelines of process_video_tensor.  An image is       *)
(* [shape, kind, dtype, lo, hi, steps]: its [C, H, W] shape, whether it is *)
(* a tensor or a PIL image, its dtype and nominal value range, and the     *)
(* transforms applied to it so far, in order.                              *)
(***************************************************************************)
_CLIP_SIZE == 384
_CLIP_FPS == 8
_SYNC_SIZE == 224
_SYNC_FPS == 25

Image(shape) ==
    [shape |-> shape, kind |-> "tensor", dtype |-> "float32",
     lo |-> 0, hi |-> 1, steps |-> <<>>]

\* v2.Resize((h, w)): both sides given
ResizeTo(img, h, w) ==
    [img EXCEPT !.shape = <<img.shape[1], h, w>>, !.steps = Append(@, "Resize")]

\* v2.Resize(size): the shorter side becomes size, the longer one
\* int(size * long / short)
ResizeShort(img, size) ==
    LET h == img.shape[2]
        w == img.shape[3]
        short == IF w <= h THEN w ELSE h
        long  == IF w <= h THEN h ELSE w
        newLong == (size * long) \div short
    IN  [img EXCEPT !.shape = IF w <= h THEN <<img.shape[1], newLong, size>>
                              ELSE <<img.shape[1], size, newLong>>,
                    !.steps = Append(@, "Resize")]

\* v2.CenterCrop(size): pads a smaller image, so the result is size x size
CenterCrop(img, size) ==
    [img EXCEPT !.shape = <<img.shape[1], size, size>>,
                !.steps = Append(@, "CenterCrop")]

\* v2.ToPILImage(): a float tensor is scaled by 255 and cast to bytes
ToPILImage(img) ==
    [img EXCEPT !.kind = "pil", !.dtype = "uint8", !.lo = 0, !.hi = 255,
                !.steps = Append(@, "ToPILImage")]

\* v2.ToTensor(): a PIL byte image becomes a float32 tensor in [0, 1]
ToTensor(img) ==
    [img EXCEPT !.kind = "tensor", !.dtype = "float32", !.lo = 0, !.hi = 1,
                !.steps = Append(@, "ToTensor")]

\* v2.ConvertImageDtype(torch.float32)
ConvertImageDtype(img) ==
    [img EXCEPT !.dtype = "float32",
                !.hi = IF img.dtype = "uint8" THEN 1 ELSE @,
                !.steps = Append(@, "ConvertImageDtype")]

\* v2.Normalize(mean=0.5, std=0.5): (x - 0.5) / 0.5 = 2x - 1
Normalize(img) ==
    [img EXCEPT !.lo = 2 * @ - 1, !.hi = 2 * @ - 1,
                !.steps = Append(@, "Normalize")]

clip_transform(img) ==
    ConvertImageDtype(ToTensor(ToPILImage(ResizeTo(img, _CLIP_SIZE, _CLIP_SIZE))))

sync_transform_uncropped(img) ==
    Normalize(ConvertImageDtype(ToTensor(ToPILImage(ResizeShort(img, _SYNC_SIZE)))))

sync_transform_normalize_first(img) ==
    ConvertImageDtype(ToTensor(ToPILImage(Normalize(
        CenterCrop(ResizeShort(img, _SYNC_SIZE), _SYNC_SIZE)))))

sync_transform(img) ==
    Normalize(ConvertImageDtype(ToTensor(ToPILImage(
        CenterCrop(ResizeShort(img, _SYNC_SIZE), _SYNC_SIZE)))))

\* iterating a [K, C, H, W] tensor yields K frames, each a [C, H, W] image
Frame(x) == Image(SubSeq(x.shape, 2, Len(x.shape)))

\* torch.stack(list): raises on an empty list; the result is
\* [shape, frames]
stack(imgs) ==
    IF Len(imgs) = 0 THEN Raised
    ELSE Returned([shape |-> <<Len(imgs)>> \o imgs[1].shape, frames |-> imgs])

\* int(fps * duration_sec) in double arithmetic; duration_sec is the
\* double nearest to cs/100
FrameCountRounded(fps, cs) == (2 * fps * cs + 100) \div 200

\* the products, computed once for the durations of the model
FrameCounts ==
    [fps \in {_CLIP_FPS, _SYNC_FPS} |->
        [cs \in 0..MaxCs |-> DoubleToInt(DoubleMul(fps, DecimalToDouble(cs)))]]

FrameCount(fps, cs) == FrameCounts[fps][cs]

(***************************************************************************)
(* process_video_tensor(video_tensor, duration_sec).  The result records   *)
(* the values returned (raised is TRUE when an exception left the          *)
(* function, and then nothing is returned), the target frame counts handed *)
(* to resample_video, in call order, and the sizes of the frame sets the   *)
(* transform loops ran over.                                               *)
(***************************************************************************)
\* lines 77-85, given the two resampled videos: the layout change, the
\* per-frame transforms, the stacking and the return
transform_branches(duration_sec, calls, clip_video, sync_video) ==
    LET clip_p == permute(clip_video, <<0, 3, 1, 2>>)
        sync_p == permute(sync_video, <<0, 3, 1, 2>>)
        clip_l == [i \in 1..clip_p.shape[1] |-> clip_transform(Frame(clip_p))]
        sync_l == [i \in 1..sync_p.shape[1] |-> sync_transform(Frame(sync_p))]
    IN  IF stack(clip_l).raised
        THEN [raised |-> TRUE, clip_frames |-> <<>>, sync_frames |-> <<>>,
              duration |-> 0, resample_calls |-> calls, loops |-> <<Len(clip_l)>>]
        ELSE IF stack(sync_l).raised
        THEN [raised |-> TRUE, clip_frames |-> <<>>, sync_frames |-> <<>>,
              duration |-> 0, resample_calls |-> calls,
              loops |-> <<Len(clip_l), Len(sync_l)>>]
        ELSE [raised |-> FALSE,
              clip_frames |-> stack(clip_l).value,
              sync_frames |-> stack(sync_l).value,
              duration |-> duration_sec, resample_calls |-> calls,
              loops |-> <<Len(clip_l), Len(sync_l)>>]

\* lines 69-75, given the two frame counts and the outcomes of the two
\* resample_video calls: the second call is not made when the first raises
resample_branches(duration_sec, clip_frames_count, sync_frames_count, clip, sync) ==
    IF clip.raised
    THEN [raised |-> TRUE, clip_frames |-> <<>>, sync_frames |-> <<>>,
          duration |-> 0, resample_calls |-> <<clip_frames_count>>, loops |-> <<>>]
    ELSE IF sync.raised
    THEN [raised |-> TRUE, clip_frames |-> <<>>, sync_frames |-> <<>>,
          duration |-> 0,
          resample_calls |-> <<clip_frames_count, sync_frames_count>>,
          loops |-> <<>>]
    ELSE transform_branches(duration_sec, <<clip_frames_count, sync_frames_count>>,
                            clip.video, sync.video)

process_video_tensor(video_tensor, duration_sec) ==
    resample_branches(
        duration_sec,
        FrameCount(_CLIP_FPS, duration_sec),
        FrameCount(_SYNC_FPS, duration_sec),
        resample_video(video_tensor, FrameCount(_CLIP_FPS, duration_sec)),
        resample_video(video_tensor, FrameCount(_SYNC_FPS, duration_sec)))

(***************************************************************************)
(* The nodes.  State of the host process:                                  *)
(*   seq_cfg        the duration held by each of the two module-level      *)
(*                  SequenceConfig objects CONFIG_16K and CONFIG_44K       *)
(*   mmaudio_model  the model object the loader node returned              *)
(*   feature_utils  the FeaturesUtils object (where its parts are placed)   *)
(*   call           the last node execution: its inputs and its outcome    *)
(* and, for the two functions taken alone, the argument and result of      *)
(* resample_video (rs...) and of process_video_tensor (pv...).             *)
(***************************************************************************)
VARIABLES seq_cfg, mmaudio_model, feature_utils, call,
          rsVideo, rsArg, rsResult, rsChain,
          pvVideo, pvDuration, pvResult

vars == <<seq_cfg, mmaudio_model, feature_utils, call,
          rsVideo, rsArg, rsResult, rsChain, pvVideo, pvDuration, pvResult>>

nodeVars == <<seq_cfg, mmaudio_model, feature_utils, call>>
rsVars == <<rsVideo, rsArg, rsResult, rsChain>>
pvVars == <<pvVideo, pvDuration, pvResult>>

Configs == {"CONFIG_16K", "CONFIG_44K"}

\* durations the sampler is run with, in centiseconds
SampleDurations == {MinSampleCs + DurStride * i : i \in 0..MaxDurIdx}

\* videos the sampler is run with: one pixel each frame
SampleVideos ==
    {v \in BlackVideos :
        v.shape[1] <= MaxSampleFrames /\ v.shape[2] = 1 /\ v.shape[3] = 1}

\* file names of the mmaudio folder, by the substrings the loader looks for
ModelNames ==
    [size : {"small", "large", "other"}, has44 : BOOLEAN, has16 : BOOLEAN]

NoCall ==
    [fn |-> "none", outcome |-> "none", in |-> <<>>, pvt_calls |-> 0,
     resample_calls |-> <<>>, loops |-> <<>>, generate |-> Absent, audio |-> Absent]

NoModel == [present |-> FALSE, seq_cfg |-> "unset", seq_len_for |-> <<>>,
            device |-> "none"]

\* the FeaturesUtils object, as MMAudioFeatureUtilsLoader.loadmodel returns
\* it: its parts moved to the compute device
LoadedFeatureUtils == [device |-> "device"]

\* the variables of the other specifications, at rest
NodesIdle ==
    /\ seq_cfg = [c \in Configs |-> 0]
    /\ mmaudio_model = NoModel
    /\ feature_utils = LoadedFeatureUtils
    /\ call = NoCall

RsIdle == rsVideo = <<>> /\ rsArg = 0 /\ rsResult = <<>> /\ rsChain = 0

PvIdle == pvVideo = <<>> /\ pvDuration = 0 /\ pvResult = [done |-> FALSE]

(***************************************************************************)
(* MMAudioModelLoader.loadmodel                                            *)
(***************************************************************************)
\* the sequence configuration attached to the model (lines 150-153)
SeqCfgFor(name) ==
    IF name.has44 THEN "CONFIG_44K"
    ELSE IF name.has16 THEN "CONFIG_16K"
    ELSE "unset"

LoadModel(name) ==
    /\ IF name.size \notin {"small", "large"}
       THEN \* `model` is never assigned: line 147 raises UnboundLocalError
            /\ call' = [NoCall EXCEPT !.fn = "loadmodel",
                                      !.outcome = "UnboundLocalError"]
            /\ UNCHANGED mmaudio_model
       ELSE /\ mmaudio_model' =
                  [present |-> TRUE, seq_cfg |-> SeqCfgFor(name),
                   seq_len_for |-> <<>>, device |-> "device"]
            /\ call' = [NoCall EXCEPT !.fn = "loadmodel", !.outcome = "returned"]
    /\ UNCHANGED <<seq_cfg, feature_utils, rsVars, pvVars>>

(***************************************************************************)
(* MMAudioSampler.sample.  Its inputs are [duration, images,               *)
(* mask_away_clip, force_offload]; steps, cfg, seed and the prompts are    *)
(* handed to the external generate untouched and are left out.             *)
(***************************************************************************)
SampleInputs ==
    [duration : SampleDurations,
     images : {Absent} \cup {Some(v) : v \in SampleVideos},
     mask_away_clip : BOOLEAN,
     force_offload : BOOLEAN]

\* Tensor.unsqueeze(0) of a stacked branch tensor
Batched(frames) == [shape |-> <<1>> \o frames.shape, frames |-> frames.frames]

with_images_masks_sync(r, mask_away_clip) ==
    [raised |-> r.raised,
     clip_frames |-> IF r.raised THEN Absent ELSE Some(Batched(r.clip_frames)),
     sync_frames |-> IF r.raised \/ mask_away_clip THEN Absent
                     ELSE Some(Batched(r.sync_frames)),
     duration |-> r.duration, pvt_calls |-> 1,
     resample_calls |-> r.resample_calls, loops |-> r.loops]

\* lines 306-312, given what process_video_tensor did
with_images(r, mask_away_clip) ==
    [raised |-> r.raised,
     clip_frames |-> IF r.raised \/ mask_away_clip THEN Absent
                     ELSE Some(Batched(r.clip_frames)),
     sync_frames |-> IF r.raised THEN Absent ELSE Some(Batched(r.sync_frames)),
     duration |-> r.duration, pvt_calls |-> 1,
     resample_calls |-> r.resample_calls, loops |-> r.loops]

without_images_sync_unset(duration) ==
    [raised |-> TRUE, clip_frames |-> Absent, sync_frames |-> Absent,
     duration |-> duration, pvt_calls |-> 0, resample_calls |-> <<>>,
     loops |-> <<>>]

\* lines 313-315
without_images(duration) ==
    [raised |-> FALSE, clip_frames |-> Absent, sync_frames |-> Absent,
     duration |-> duration, pvt_calls |-> 0, resample_calls |-> <<>>,
     loops |-> <<>>]

\* lines 304-315: the two conditioning inputs of generate, and the duration
\* process_video_tensor hands back
conditioning(images, duration, mask_away_clip) ==
    IF images.present
    THEN with_images(process_video_tensor(images.value, duration), mask_away_clip)
    ELSE without_images(duration)

set_duration_skipped(cfgs, name, duration) == cfgs

\* line 317: seq_cfg.duration = duration, on the shared configuration object
set_duration(cfgs, name, duration) == [cfgs EXCEPT ![name] = duration]

\* line 318: the sequence lengths the model is given are the properties of
\* its configuration, which that configuration computes from its duration
update_seq_lengths(model, cfgs) ==
    [model EXCEPT !.seq_len_for = <<model.seq_cfg, cfgs[model.seq_cfg]>>]

\* line 339
SAMPLE_RATE == 44100

\* an exception leaves sample: nothing was assigned yet
sample_raised(outcome, c, model, fu, cfgs) ==
    [outcome |-> outcome, cfgs |-> cfgs, model |-> model, fu |-> fu,
     pvt_calls |-> c.pvt_calls, resample_calls |-> c.resample_calls,
     loops |-> c.loops, generate |-> Absent, audio |-> Absent]

\* lines 317-342, given the conditioning inputs c
sample_generate(model, fu, cfgs, in, c) ==
    LET cfgs2  == set_duration(cfgs, model.seq_cfg, c.duration)
        model2 == [update_seq_lengths(model, cfgs2) EXCEPT !.device = "device"]
        fu2    == [fu EXCEPT !.device = "device"]
        args   == [clip_frames |-> c.clip_frames,
                   sync_frames |-> c.sync_frames,
                   seq_len_for |-> model2.seq_len_for,
                   net_device |-> model2.device,
                   feature_utils_device |-> fu2.device]
        end    == IF in.force_offload THEN "offload" ELSE "device"
    IN  [outcome |-> "returned", cfgs |-> cfgs2,
         model |-> [model2 EXCEPT !.device = end],
         fu |-> [fu2 EXCEPT !.device = end],
         pvt_calls |-> c.pvt_calls,
         resample_calls |-> c.resample_calls, loops |-> c.loops,
         generate |-> Some(args),
         audio |-> Some([waveform |-> model2.seq_len_for,
                         sample_rate |-> SAMPLE_RATE])]

sample_after_conditioning(model, fu, cfgs, in, c) ==
    IF c.raised THEN sample_raised("RuntimeError", c, model, fu, cfgs)
    ELSE sample_generate(model, fu, cfgs, in, c)

\* the whole of sample: the outcome, what generate was called with, and the
\* state the shared objects are left in
sample(model, fu, cfgs, in) ==
    IF model.seq_cfg = "unset"
    THEN \* line 302 reads an attribute the loader never set
         sample_raised("AttributeError", NoCall, model, fu, cfgs)
    ELSE sample_after_conditioning(
             model, fu, cfgs, in,
             conditioning(in.images, in.duration, in.mask_away_clip))

\* the node has run: the shared objects as sample left them
Returns(in, r) ==
    /\ seq_cfg' = r.cfgs
    /\ mmaudio_model' = r.model
    /\ feature_utils' = r.fu
    /\ call' = [fn |-> "sample", outcome |-> r.outcome, in |-> in,
                pvt_calls |-> r.pvt_calls,
                resample_calls |-> r.resample_calls, loops |-> r.loops,
                generate |-> r.generate, audio |-> r.audio]

Sample(in) ==
    /\ mmaudio_model.present
    /\ Returns(in, sample(mmaudio_model, feature_utils, seq_cfg, in))
    /\ UNCHANGED <<rsVars, pvVars>>

Init ==
    /\ seq_cfg \in {[c \in Configs |-> d] : d \in SampleDurations}
    /\ mmaudio_model = NoModel
    /\ feature_utils = LoadedFeatureUtils
    /\ call = NoCall
    /\ RsIdle
    /\ PvIdle

Next ==
    \/ \E name \in ModelNames : LoadModel(name)
    \/ \E in \in SampleInputs : Sample(in)

Spec == Init /\ [][Next]_vars

(***************************************************************************)
(* resample_video taken alone: applied, up to MaxChain times in a row, to  *)
(* a video and every target frame count 0..MaxTarget.                      *)
(***************************************************************************)
ResampleInit ==
    /\ rsVideo \in Videos
    /\ rsArg = 0
    /\ rsResult = <<>>
    /\ rsChain = 0
    /\ NodesIdle
    /\ PvIdle

Resample(new_frames) ==
    /\ rsChain < MaxChain
    /\ (rsChain > 0 => ~rsResult.raised)
    /\ LET video == IF rsChain = 0 THEN rsVideo ELSE rsResult.video
       IN  /\ rsVideo' = video
           /\ rsArg' = new_frames
           /\ rsResult' = resample_video(video, new_frames)
    /\ rsChain' = rsChain + 1
    /\ UNCHANGED <<nodeVars, pvVars>>

ResampleNext == \E new_frames \in 0..MaxTarget : Resample(new_frames)

ResampleSpec == ResampleInit /\ [][ResampleNext]_vars

(***************************************************************************)
(* process_video_tensor taken alone: applied to a video and every          *)
(* duration 0..MaxCs centiseconds.                                         *)
(***************************************************************************)
PreprocessInit ==
    /\ pvVideo \in BlackVideos
    /\ pvDuration \in 0..MaxCs
    /\ pvResult = [done |-> FALSE]
    /\ NodesIdle
    /\ RsIdle

Preprocess ==
    /\ ~pvResult.done
    /\ pvResult' = [done |-> TRUE, r |-> process_video_tensor(pvVideo, pvDuration)]
    /\ UNCHANGED <<pvVideo, pvDuration, nodeVars, rsVars>>

PreprocessNext == Preprocess

PreprocessSpec == PreprocessInit /\ [][PreprocessNext]_vars

(***************************************************************************)
(* Properties.                                                             *)
(***************************************************************************)
BranchFps == <<_CLIP_FPS, _SYNC_FPS>>

Abs(x) == IF x < 0 THEN -x ELSE x

\* C1 as stated: every target frame count process_video_tensor hands to
\* resample_video, and the frame count of the branch tensor it returns, is
\* round(duration * fps), a nearest integer to the product.
C1_RoundedFrameCount ==
    pvResult.done =>
        \A i \in 1..Len(pvResult.r.resample_calls) :
            2 * Abs(100 * pvResult.r.resample_calls[i] - BranchFps[i] * pvDuration) <= 100

\* C1 amended: every target frame count process_video_tensor hands to
\* resample_video is int(fps * duration) of the double product: the product
\* rounded down, floor(duration * fps), for the 8 fps branch always and for
\* the 25 fps branch unless duration * 25 is a whole number that the double
\* product falls just short of, where it is one less; and the branch tensor
\* returned has that many frames.
C1_TruncatedFrameCount ==
    pvResult.done =>
        /\ Len(pvResult.r.resample_calls) >= 1
        /\ \A i \in 1..Len(pvResult.r.resample_calls) :
              LET m == pvResult.r.resample_calls[i]
                  exact == BranchFps[i] * pvDuration      \* duration * fps * 100
              IN  /\ 100 * m <= exact
                  /\ exact <= 100 * (m + 1)
                  /\ exact = 100 * (m + 1) => BranchFps[i] = _SYNC_FPS
        /\ ~pvResult.r.raised =>
              /\ pvResult.r.clip_frames.shape[1] = pvResult.r.resample_calls[1]
              /\ pvResult.r.sync_frames.shape[1] = pvResult.r.resample_calls[2]

\* a duration (1.16 s) whose 25 fps count is one less than duration * 25
C1_Witness ==
    /\ pvResult.done
    /\ ~pvResult.r.raised
    /\ 100 * (pvResult.r.resample_calls[2] + 1) = _SYNC_FPS * pvDuration
    /\ 100 * pvResult.r.resample_calls[1] < _CLIP_FPS * pvDuration

\* C2: in a sample call that supplies images, resample_video is never
\* called with a target frame count of zero or less, and no transform loop
\* runs over an empty frame set.
C2_PositiveFrameCounts ==
    (call.fn = "sample" /\ call.in.images.present) =>
        /\ \A i \in 1..Len(call.resample_calls) : call.resample_calls[i] >= 1
        /\ \A i \in 1..Len(call.loops) : call.loops[i] >= 1

C4_MaskOnlyClip ==
    (call.fn = "sample" /\ call.in.images.present /\ call.generate.present) =>
        /\ call.generate.value.sync_frames.present
        /\ ~call.generate.value.clip_frames.present <=> call.in.mask_away_clip

C4_Witness ==
    /\ call.fn = "sample"
    /\ call.in.images.present
    /\ call.in.mask_away_clip
    /\ call.generate.present
    /\ call.generate.value.sync_frames.present
    /\ ~call.generate.value.clip_frames.present

\* C5: resample_video of an [N, H, W, C] video, N >= 1, to M >= 1 frames
\* returns an [M, H, W, C] tensor, frame axis first, on both paths.
C5_ResampledShape ==
    (rsChain > 0 /\ rsVideo.shape[1] >= 1 /\ rsArg >= 1) =>
        /\ ~rsResult.raised
        /\ rsResult.video.shape =
              <<rsArg, rsVideo.shape[2], rsVideo.shape[3], rsVideo.shape[4]>>
        /\ rsResult.video.t = 1
        /\ Len(rsResult.video.data) = rsArg

\* the interpolation path, on a video whose height and width differ
C5_Witness ==
    /\ rsChain > 0
    /\ rsArg >= 1
    /\ rsArg # rsVideo.shape[1]
    /\ rsVideo.shape[2] # rsVideo.shape[3]
    /\ Len(rsResult.interpolate) = 1
    /\ ~rsResult.raised

\* C6: resample_video to the frame count the video already has returns the
\* video itself and calls F.interpolate not at all, so resampling a
\* resampled video to the same count again changes nothing.
C6_IdentityPath ==
    (rsChain > 0 /\ rsArg = rsVideo.shape[1]) =>
        /\ ~rsResult.raised
        /\ rsResult.video = rsVideo
        /\ rsResult.interpolate = <<>>

\* a second resampling, to the same count, of an interpolated video
C6_Witness ==
    /\ rsChain = 2
    /\ rsArg = rsVideo.shape[1]
    /\ \E i \in 1..Len(rsVideo.data) : rsVideo.data[i].d > 1
    /\ rsResult.video = rsVideo

\* C7: for resampled frame sets of K >= 1 frames of any height and width,
\* process_video_tensor returns a [K, 3, 384, 384] clip tensor and a
\* [K, 3, 224, 224] sync tensor.
C7_BranchShapes ==
    (pvResult.done /\ \A i \in 1..Len(pvResult.r.resample_calls) :
                          pvResult.r.resample_calls[i] >= 1) =>
        /\ ~pvResult.r.raised
        /\ pvResult.r.clip_frames.shape =
              <<pvResult.r.resample_calls[1], 3, 384, 384>>
        /\ pvResult.r.sync_frames.shape =
              <<pvResult.r.resample_calls[2], 3, 224, 224>>
        /\ \A i \in 1..Len(pvResult.r.clip_frames.frames) :
              pvResult.r.clip_frames.frames[i].shape = <<3, 384, 384>>
        /\ \A i \in 1..Len(pvResult.r.sync_frames.frames) :
              pvResult.r.sync_frames.frames[i].shape = <<3, 224, 224>>

\* a video wider than high, and one higher than wide, each preprocessed
C7_Witness ==
    /\ pvResult.done
    /\ ~pvResult.r.raised
    /\ pvVideo.shape[2] # pvVideo.shape[3]
    /\ pvResult.r.sync_frames.shape[1] > pvResult.r.clip_frames.shape[1]

\* the place of a transform in the order resize, crop, conversion to
\* float32 in [0, 1], normalization
StepRank(step) ==
    CASE step = "Resize" -> 1
      [] step = "CenterCrop" -> 2
      [] step \in {"ToPILImage", "ToTensor", "ConvertImageDtype"} -> 3
      [] step = "Normalize" -> 4

InOrder(steps) ==
    \A i \in 1..Len(steps), j \in 1..Len(steps) :
        i < j => StepRank(steps[i]) <= StepRank(steps[j])

Ranks(steps) == {StepRank(steps[i]) : i \in 1..Len(steps)}

\* C8: every frame of either branch has its transforms applied in the
\* order resize, crop, conversion to float32 in [0, 1], normalization;
\* the clip branch has no crop and no normalization, the sync branch has
\* both.
C8_TransformOrder ==
    (pvResult.done /\ ~pvResult.r.raised) =>
        /\ \A i \in 1..Len(pvResult.r.clip_frames.frames) :
              LET f == pvResult.r.clip_frames.frames[i]
              IN  /\ InOrder(f.steps)
                  /\ Ranks(f.steps) = {1, 3}
                  /\ f.steps[1] = "Resize"
                  /\ f.dtype = "float32" /\ f.lo = 0 /\ f.hi = 1
        /\ \A i \in 1..Len(pvResult.r.sync_frames.frames) :
              LET f == pvResult.r.sync_frames.frames[i]
              IN  /\ InOrder(f.steps)
                  /\ Ranks(f.steps) = {1, 2, 3, 4}
                  /\ f.steps[1] = "Resize" /\ f.steps[2] = "CenterCrop"
                  /\ f.steps[Len(f.steps)] = "Normalize"
                  /\ f.dtype = "float32" /\ f.lo = -1 /\ f.hi = 1

C8_Witness ==
    /\ pvResult.done
    /\ ~pvResult.r.raised
    /\ Len(pvResult.r.clip_frames.frames) >= 2
    /\ Len(pvResult.r.sync_frames.frames) >= 2

\* C9 as stated: a sample call leaves every object shared between calls
\* (the sequence configurations, the model, the feature utilities) in the
\* state it had before the call.
C9_SharedStateRestored ==
    [][(\E in \in SampleInputs : Sample(in))
          => UNCHANGED <<seq_cfg, mmaudio_model, feature_utils>>]_vars

\* C9 amended: a sample call that returns overwrites the duration of the
\* model's shared sequence configuration and the model's sequence lengths
\* with those of its own duration before generate reads them, and puts the
\* model and the feature utilities on the compute device, so what generate
\* is given depends on that call's inputs alone; the shared configuration
\* is left holding the call's duration, and the model and feature
\* utilities are left where force_offload says.
C9_OwnInputsDecide ==
    (call.fn = "sample" /\ call.outcome = "returned") =>
        /\ call.generate.value.seq_len_for =
              <<mmaudio_model.seq_cfg, call.in.duration>>
        /\ call.generate.value.net_device = "device"
        /\ call.generate.value.feature_utils_device = "device"
        /\ call.audio.value.waveform = <<mmaudio_model.seq_cfg, call.in.duration>>
        /\ seq_cfg[mmaudio_model.seq_cfg] = call.in.duration
        /\ mmaudio_model.seq_len_for = <<mmaudio_model.seq_cfg, call.in.duration>>
        /\ mmaudio_model.device =
              (IF call.in.force_offload THEN "offload" ELSE "device")
        /\ feature_utils.device = mmaudio_model.device

\* a call that returned after the shared configurations, equal at the
\* start, had been driven apart by earlier calls
C9_Witness ==
    /\ call.fn = "sample"
    /\ call.outcome = "returned"
    /\ seq_cfg["CONFIG_16K"] # seq_cfg["CONFIG_44K"]
    /\ ~call.in.force_offload

\* the sampling rate of a sequence configuration
SamplingRate(cfg) == IF cfg = "CONFIG_44K" THEN 44100 ELSE 16000

\* C10: the sample_rate of the audio sample returns is the sampling rate
\* of the sequence configuration the loader attached to the model.
C10_SampleRateOfConfig ==
    (call.fn = "sample" /\ call.outcome = "returned") =>
        call.audio.value.sample_rate = SamplingRate(mmaudio_model.seq_cfg)

====
